---- MODULE Spec2Model ----
(***************************************************************************)
(* devmaker: discovery of script-based jobs, resolution of their "ask"     *)
(* variables through a chain of sources, dependency scheduling, and        *)
(* sequential execution.  The model follows src/src/main.rs (the crate     *)
(* root; it declares the modules cli, common, config and info).            *)
(*                                                                         *)
(* Strings are TLA+ strings; Option<T> is a sequence of length 0 (None) or *)
(* 1 (Some); an EnvMap is a function whose DOMAIN is its key set.          *)
(***************************************************************************)
EXTENDS Integers, Sequences, FiniteSets, TLC

VARIABLES
    names,            \* Vec<String> returned by get_job_names
    info,             \* per job directory: parsed info.json and deps.sh presence
    config,           \* Config
    environ,          \* the process environment read by env::var
    pc,               \* position of the control thread in run_all_jobs
    specs,            \* Vec<JobSpec>
    q,                \* query_vars: index of the next entry of var_names
    cur,              \* query_single_var: (raw, runnable_name, is_secure, value)
    new_env,          \* query_vars: the EnvMap being built
    lookups,          \* history: every source consulted, in order
    queried,          \* history: the name of every call of query_single_var
    respecs,          \* Vec<ReadyJob>
    scheduled,        \* schedule_specs: Vec<ReadyJob> built so far
    scheduled_names,  \* schedule_specs: HashSet of scheduled names
    scans,            \* history: number of passes of the while loop
    queue,            \* the Vec<ReadyJob> schedule_specs returned
    job_idx,          \* run_all_jobs: position in queue of the job being run
    spawned,          \* history: child processes started, in order
    reported,         \* history: the lines report_jobs printed (index, name)
    result,           \* Result<()> of run_all_jobs, once it has returned
    modes,            \* the file system: permission bits of each script, None if absent
    tmp_dirs,         \* history: every TempDir created, and whether it still exists
    proc_env,         \* ReadyJob::run: the EnvMap create_proc_env returned
    runnable,         \* run_process: the script being run (path and which one)
    located,          \* history: every call of find_runner and what it returned
    opt               \* the command line (Opt, with the lines of the variables file)

vars == << names, info, config, environ, pc, specs, q, cur, new_env, lookups,
           queried, respecs, scheduled, scheduled_names, scans, queue, job_idx, spawned,
           reported, result, modes, tmp_dirs, proc_env, runnable, located, opt >>

\* The state of the job runner (ReadyJob::run and run_process).
runvars == << modes, tmp_dirs, proc_env, runnable, located >>

-----------------------------------------------------------------------------
(* Bounds of the model *)

MaxJobs == 3

MaxAsk == 2

-----------------------------------------------------------------------------
(* Program constants *)

DEPS_SCRIPT == "deps.sh"

SECURE_SUFFIX == "_SECURE"

None == << >>

Some(v) == << v >>

-----------------------------------------------------------------------------
(* String and map helpers (std) *)

ends_with(s, suffix) ==
    /\ Len(s) >= Len(suffix)
    /\ SubSeq(s, Len(s) - Len(suffix) + 1, Len(s)) = suffix

RECURSIVE str_replace(_, _, _)
str_replace(s, from, to) ==
    IF Len(s) < Len(from) THEN s
    ELSE IF SubSeq(s, 1, Len(from)) = from
         THEN to \o str_replace(SubSeq(s, Len(from) + 1, Len(s)), from, to)
         ELSE SubSeq(s, 1, 1) \o str_replace(SubSeq(s, 2, Len(s)), from, to)

LowerCase == "abcdefghijklmnopqrstuvwxyz"

UpperCase == "ABCDEFGHIJKLMNOPQRSTUVWXYZ"

upper_char(c) ==
    IF \E i \in 1..Len(LowerCase) : SubSeq(LowerCase, i, i) = c
    THEN LET i == CHOOSE i \in 1..Len(LowerCase) : SubSeq(LowerCase, i, i) = c
         IN  SubSeq(UpperCase, i, i)
    ELSE c

RECURSIVE to_uppercase(_)
to_uppercase(s) ==
    IF Len(s) = 0 THEN s
    ELSE upper_char(SubSeq(s, 1, 1)) \o to_uppercase(SubSeq(s, 2, Len(s)))

map_insert(m, k, v) ==
    [x \in DOMAIN m \cup {k} |-> IF x = k THEN v ELSE m[x]]

map_get(m, k) == IF k \in DOMAIN m THEN Some(m[k]) ELSE None

EmptyMap == [x \in {} |-> ""]

-----------------------------------------------------------------------------
(* common.rs, main.rs: names and keys *)

secure_name_check(name) ==
    LET has_secure_suffix == ends_with(name, SECURE_SUFFIX)
    IN  << IF has_secure_suffix THEN str_replace(name, SECURE_SUFFIX, "") ELSE name,
           has_secure_suffix >>

encode_key(key) ==
    str_replace(str_replace(to_uppercase(key), "-", "_"), " ", "_")

-----------------------------------------------------------------------------
(* Job records *)

JobSpec(name, provided_env, depends, ask_for_vars, has_deps_script) ==
    [name |-> name, provided_env |-> provided_env, depends |-> depends,
     ask_for_vars |-> ask_for_vars, has_deps_script |-> has_deps_script]

ReadyJob(name, env, depends, has_deps_script) ==
    [name |-> name, env |-> env, depends |-> depends,
     has_deps_script |-> has_deps_script]

\* parse_job_files, for every discovered name: the JobSpec of its directory.
parse_job_files(name, inf) ==
    JobSpec(name, inf[name].env, inf[name].depends, inf[name].ask,
            inf[name].has_deps_script)

Ok == [ok |-> TRUE, kind |-> "", detail |-> << >>]

Err(kind, detail) == [ok |-> FALSE, kind |-> kind, detail |-> detail]

Running == [ok |-> FALSE, kind |-> "running", detail |-> << >>]

-----------------------------------------------------------------------------
(* config.rs: Config lookups *)

\* opt_map_helper!: None when the map is absent, else map.get of the name
\* passed through secure_name_check.
opt_map_helper(map, name) ==
    IF map = None THEN None ELSE map_get(map[1], secure_name_check(name)[1])

get_cmd_var(cfg, name) == opt_map_helper(cfg.cmd_vars, name)

get_file_var(cfg, name) == opt_map_helper(cfg.ask_file_vars, name)

-----------------------------------------------------------------------------
(* The sources of query_single_var *)

try_empty_var(cfg) == IF cfg.empty_vars THEN Some("") ELSE None

\* Mutant of try_var_from_env: allow_env is not consulted.
try_var_from_env_unchecked(raw, cfg, env) ==
    map_get(env, secure_name_check(raw)[1])

try_var_from_env(raw, cfg, env) ==
    IF cfg.allow_env THEN map_get(env, secure_name_check(raw)[1]) ELSE None

try_var_from_cmd(name, cfg) == get_cmd_var(cfg, name)

try_var_from_askfile(name, cfg) == get_file_var(cfg, name)

\* What interact() can return: a line (possibly empty), or an error that
\* .ok() turns into None.
PromptOutcomes == {Some(""), Some("p"), None}

\* One entry of the history of consulted sources.
Lookup(source, key, got) ==
    [source |-> source, call |-> Len(queried), raw |-> cur.raw, key |-> key,
     masked |-> FALSE, got |-> got]

\* var_names: the ask variables of all jobs, flattened in job order.
RECURSIVE flat_ask_vars(_, _)
flat_ask_vars(sp, i) ==
    IF i > Len(sp) THEN << >>
    ELSE sp[i].ask_for_vars \o flat_ask_vars(sp, i + 1)

var_names == flat_ask_vars(specs, 1)

\* query_vars: whether the loop skips this entry of var_names.
already_answered(answers, name) == name \in DOMAIN answers

-----------------------------------------------------------------------------
(* run_all_jobs, up to the resolution pass *)

\* get_job_names: the names are those of the directories matched by
\* */run.*; a glob error or an unusable directory name fails the run.
GetJobNames ==
    /\ pc = "start"
    /\ UNCHANGED opt
    /\ UNCHANGED runvars
    /\ \E hit_error \in BOOLEAN :
          IF hit_error
          THEN /\ result' = Err("Failed to retrieve job names", << >>)
               /\ pc' = "failed"
          ELSE /\ pc' = "parse"
               /\ UNCHANGED result
    /\ UNCHANGED << queried, names, info, config, environ, specs, q, cur, new_env,
                    lookups, respecs, scheduled, scheduled_names, scans, queue,
                    job_idx, spawned, reported >>

\* parse_job_files for every name; an info.json that cannot be read or
\* deserialised fails the run (the ? of parse_info_file).
ParseJobFiles ==
    /\ pc = "parse"
    /\ UNCHANGED opt
    /\ UNCHANGED runvars
    /\ \E unreadable \in BOOLEAN :
          IF unreadable /\ Len(names) > 0
          THEN /\ result' = Err("Cannot parse info file", << >>)
               /\ pc' = "failed"
               /\ UNCHANGED specs
          ELSE /\ specs' = [i \in 1..Len(names) |-> parse_job_files(names[i], info)]
               /\ pc' = "query"
               /\ UNCHANGED result
    /\ UNCHANGED << queried, names, info, config, environ, q, cur, new_env, lookups,
                    respecs, scheduled, scheduled_names, scans, queue, job_idx,
                    spawned, reported >>

\* The head of the for loop of query_vars, and its return once var_names
\* is exhausted.
QueryVars ==
    /\ pc = "query"
    /\ UNCHANGED opt
    /\ UNCHANGED runvars
    /\ IF q > Len(var_names)
       THEN /\ pc' = IF Len(specs) = 0 THEN "schedule" ELSE "fill"
            /\ UNCHANGED << q, cur, queried >>
       ELSE IF already_answered(new_env, var_names[q])
            THEN /\ q' = q + 1
                 /\ UNCHANGED << pc, cur, queried >>
            ELSE /\ cur' = [raw |-> var_names[q],
                            name |-> secure_name_check(var_names[q])[1],
                            secure |-> secure_name_check(var_names[q])[2],
                            value |-> None]
                 /\ queried' = Append(queried, secure_name_check(var_names[q])[1])
                 /\ pc' = "try_empty"
                 /\ UNCHANGED q
    /\ UNCHANGED << names, info, config, environ, specs, new_env, lookups,
                    respecs, scheduled, scheduled_names, scans, queue, job_idx,
                    spawned, reported, result >>

TryEmptyVar ==
    /\ pc = "try_empty"
    /\ UNCHANGED opt
    /\ UNCHANGED runvars
    /\ cur' = [cur EXCEPT !.value = try_empty_var(config)]
    /\ lookups' = IF config.empty_vars
                  THEN Append(lookups, Lookup("empty", cur.name, try_empty_var(config)))
                  ELSE lookups
    /\ pc' = "try_env"
    /\ UNCHANGED << queried, names, info, config, environ, specs, q, new_env, respecs,
                    scheduled, scheduled_names, scans, queue, job_idx, spawned,
                    reported, result >>

\* .or_else(|| try_var_from_env(&runnable_name, config))
TryVarFromEnv ==
    /\ pc = "try_env"
    /\ UNCHANGED opt
    /\ UNCHANGED runvars
    /\ IF cur.value = None
       THEN LET got == try_var_from_env(cur.name, config, environ)
            IN  /\ cur' = [cur EXCEPT !.value = got]
                /\ lookups' = IF config.allow_env
                              THEN Append(lookups,
                                     Lookup("env", secure_name_check(cur.name)[1], got))
                              ELSE lookups
       ELSE UNCHANGED << cur, lookups >>
    /\ pc' = "try_cmd"
    /\ UNCHANGED << queried, names, info, config, environ, specs, q, new_env, respecs,
                    scheduled, scheduled_names, scans, queue, job_idx, spawned,
                    reported, result >>

\* .or_else(|| try_var_from_cmd(&runnable_name, config))
TryVarFromCmd ==
    /\ pc = "try_cmd"
    /\ UNCHANGED opt
    /\ UNCHANGED runvars
    /\ IF cur.value = None
       THEN LET got == try_var_from_cmd(cur.name, config)
            IN  /\ cur' = [cur EXCEPT !.value = got]
                /\ lookups' = IF config.cmd_vars # None
                              THEN Append(lookups,
                                     Lookup("cmd", secure_name_check(cur.name)[1], got))
                              ELSE lookups
       ELSE UNCHANGED << cur, lookups >>
    /\ pc' = "try_file"
    /\ UNCHANGED << queried, names, info, config, environ, specs, q, new_env, respecs,
                    scheduled, scheduled_names, scans, queue, job_idx, spawned,
                    reported, result >>

\* .or_else(|| try_var_from_askfile(&runnable_name, config))
TryVarFromAskfile ==
    /\ pc = "try_file"
    /\ UNCHANGED opt
    /\ UNCHANGED runvars
    /\ IF cur.value = None
       THEN LET got == try_var_from_askfile(cur.name, config)
            IN  /\ cur' = [cur EXCEPT !.value = got]
                /\ lookups' = IF config.ask_file_vars # None
                              THEN Append(lookups,
                                     Lookup("file", secure_name_check(cur.name)[1], got))
                              ELSE lookups
       ELSE UNCHANGED << cur, lookups >>
    /\ pc' = "try_ask"
    /\ UNCHANGED << queried, names, info, config, environ, specs, q, new_env, respecs,
                    scheduled, scheduled_names, scans, queue, job_idx, spawned,
                    reported, result >>

\* .or_else(|| try_ask_user_for_var(&runnable_name, config, is_secure))
TryAskUserForVar ==
    /\ pc = "try_ask"
    /\ UNCHANGED opt
    /\ UNCHANGED runvars
    /\ IF cur.value = None /\ config.interactive
       THEN \E answer \in PromptOutcomes :
               /\ cur' = [cur EXCEPT !.value = answer]
               /\ lookups' = Append(lookups,
                     [Lookup("prompt", cur.name, answer) EXCEPT !.masked = cur.secure])
       ELSE UNCHANGED << cur, lookups >>
    /\ pc' = "answer"
    /\ UNCHANGED << queried, names, info, config, environ, specs, q, new_env, respecs,
                    scheduled, scheduled_names, scans, queue, job_idx, spawned,
                    reported, result >>

\* Mutant of QueryAnswer: unwrap_or_default() in place of ok_or(..)?.
QueryAnswerDefault ==
    /\ pc = "answer"
    /\ UNCHANGED opt
    /\ UNCHANGED runvars
    /\ new_env' = map_insert(new_env, cur.name,
                             IF cur.value = None THEN "" ELSE cur.value[1])
    /\ q' = q + 1
    /\ pc' = "query"
    /\ UNCHANGED << queried, names, info, config, environ, specs, cur, lookups,
                    respecs, scheduled, scheduled_names, scans, queue, job_idx,
                    spawned, reported, result >>

\* .ok_or(..)? in query_single_var, then new_env.insert(key, value) and the
\* next iteration of query_vars; an error returns from run_all_jobs.
QueryAnswer ==
    /\ pc = "answer"
    /\ UNCHANGED opt
    /\ UNCHANGED runvars
    /\ IF cur.value = None
       THEN /\ result' = Err("Cound not resolve var", << cur.name >>)
            /\ pc' = "failed"
            /\ UNCHANGED << new_env, q >>
       ELSE /\ new_env' = map_insert(new_env, cur.name, cur.value[1])
            /\ q' = q + 1
            /\ pc' = "query"
            /\ UNCHANGED result
    /\ UNCHANGED << queried, names, info, config, environ, specs, cur, lookups, respecs,
                    scheduled, scheduled_names, scans, queue, job_idx, spawned,
                    reported >>

-----------------------------------------------------------------------------
(* fill_asked_vars *)

\* Mutant of fill_asked: the answer is stored under the name as asked.
RECURSIVE fill_asked_rawkey(_, _, _, _)
fill_asked_rawkey(ask, i, answers, map) ==
    IF i > Len(ask) THEN [ok |-> TRUE, map |-> map, missing |-> ""]
    ELSE LET name == secure_name_check(ask[i])[1]
         IN  IF name \in DOMAIN answers
             THEN fill_asked_rawkey(ask, i + 1, answers,
                                    map_insert(map, ask[i], answers[name]))
             ELSE [ok |-> FALSE, map |-> map, missing |-> name]

\* for raw in spec.ask_for_vars: the map of answers so far, or the name
\* that has no answer.
RECURSIVE fill_asked(_, _, _, _)
fill_asked(ask, i, answers, map) ==
    IF i > Len(ask) THEN [ok |-> TRUE, map |-> map, missing |-> ""]
    ELSE LET name == secure_name_check(ask[i])[1]
         IN  IF name \in DOMAIN answers
             THEN fill_asked(ask, i + 1, answers, map_insert(map, name, answers[name]))
             ELSE [ok |-> FALSE, map |-> map, missing |-> name]

\* for (k, v) in spec.provided_env.drain(), in the order the HashMap yields.
RECURSIVE fill_provided(_, _, _, _)
fill_provided(provided, order, i, map) ==
    IF i > Len(order) THEN map
    ELSE fill_provided(provided, order, i + 1,
            map_insert(map, encode_key(order[i]), provided[order[i]]))

\* The orders in which a HashMap with these keys may be drained.
DrainOrders(keys) ==
    {o \in [1..Cardinality(keys) -> keys] : \A i, j \in DOMAIN o : o[i] = o[j] => i = j}

\* One element of specs.into_iter().map(fill_asked_vars).collect(): the
\* first error ends the collection and run_all_jobs.
FillAskedVars ==
    /\ pc = "fill"
    /\ UNCHANGED opt
    /\ UNCHANGED runvars
    /\ Len(respecs) < Len(specs)
    /\ LET spec == specs[Len(respecs) + 1]
           asked == fill_asked(spec.ask_for_vars, 1, new_env, EmptyMap)
       IN  IF ~asked.ok
           THEN /\ result' = Err("Unresolvable variable", << asked.missing >>)
                /\ pc' = "failed"
                /\ UNCHANGED respecs
           ELSE \E order \in DrainOrders(DOMAIN spec.provided_env) :
                   /\ respecs' = Append(respecs,
                         ReadyJob(spec.name,
                                  fill_provided(spec.provided_env, order, 1, asked.map),
                                  spec.depends, spec.has_deps_script))
                   /\ pc' = IF Len(respecs') = Len(specs) THEN "schedule" ELSE "fill"
                   /\ UNCHANGED result
    /\ UNCHANGED << queried, names, info, config, environ, specs, q, cur, new_env,
                    lookups, scheduled, scheduled_names, scans, queue, job_idx,
                    spawned, reported >>

-----------------------------------------------------------------------------
(* schedule_specs *)

\* Mutant of schedule: the name is not recorded in scheduled_names.
schedule_forgets_name(st, job) ==
    [names |-> st.names, order |-> Append(st.order, job)]

\* schedule!: record a job in the set of names and in the ordered output.
schedule(st, job) ==
    [names |-> st.names \cup {job.name}, order |-> Append(st.order, job)]

\* for job in jobs { if job.depends.is_empty() { schedule!(job) } }
RECURSIVE schedule_roots(_, _, _)
schedule_roots(jobs, i, st) ==
    IF i > Len(jobs) THEN st
    ELSE schedule_roots(jobs, i + 1,
            IF jobs[i].depends = {} THEN schedule(st, jobs[i]) ELSE st)

\* Mutant of schedule_scan: a dependency counts as met when it is the name
\* of any job of the input, scheduled or not.
RECURSIVE schedule_scan_known(_, _, _)
schedule_scan_known(jobs, i, st) ==
    IF i > Len(jobs) THEN st
    ELSE schedule_scan_known(jobs, i + 1,
            IF jobs[i].name \in st.names THEN st
            ELSE IF \A d \in jobs[i].depends : d \in {jobs[k].name : k \in 1..Len(jobs)}
                 THEN schedule(st, jobs[i])
                 ELSE st)

\* Mutant of schedule_scan: any() in place of all().
RECURSIVE schedule_scan_any(_, _, _)
schedule_scan_any(jobs, i, st) ==
    IF i > Len(jobs) THEN st
    ELSE schedule_scan_any(jobs, i + 1,
            IF jobs[i].name \in st.names THEN st
            ELSE IF \E d \in jobs[i].depends : d \in st.names
                 THEN schedule(st, jobs[i])
                 ELSE st)

\* Mutant of schedule_scan: readiness is judged against the set of names as
\* it stood when the pass began (one dependency layer per pass).
RECURSIVE snapshot_pass(_, _, _, _)
snapshot_pass(jobs, i, st, snap) ==
    IF i > Len(jobs) THEN st
    ELSE snapshot_pass(jobs, i + 1,
            IF jobs[i].name \in st.names THEN st
            ELSE IF \A d \in jobs[i].depends : d \in snap
                 THEN schedule(st, jobs[i])
                 ELSE st,
            snap)

schedule_scan_snapshot(jobs, i, st) == snapshot_pass(jobs, i, st, st.names)

\* One pass of the for loop inside the while loop: jobs are examined in
\* input order against the set as it stands when the job is reached.
RECURSIVE schedule_scan(_, _, _)
schedule_scan(jobs, i, st) ==
    IF i > Len(jobs) THEN st
    ELSE schedule_scan(jobs, i + 1,
            IF jobs[i].name \in st.names THEN st
            ELSE IF \A d \in jobs[i].depends : d \in st.names
                 THEN schedule(st, jobs[i])
                 ELSE st)

\* Mutant of cycle_error: the filter is inverted.
cycle_error_inverted(sched_names, all) ==
    LET is_scheduled(j) == j.name \in sched_names
        name_of(js) == [i \in 1..Len(js) |-> js[i].name]
    IN  Err("Unschedulable jobs", name_of(SelectSeq(all, is_scheduled)))

\* The names cycle_error joins into its message, in input order.
cycle_error(sched_names, all) ==
    LET unscheduled(j) == j.name \notin sched_names
        name_of(js) == [i \in 1..Len(js) |-> js[i].name]
    IN  Err("Unschedulable jobs", name_of(SelectSeq(all, unscheduled)))

ScheduleRoots ==
    /\ pc = "schedule"
    /\ UNCHANGED opt
    /\ UNCHANGED runvars
    /\ LET st == schedule_roots(respecs, 1, [names |-> {}, order |-> << >>])
       IN  /\ scheduled' = st.order
           /\ scheduled_names' = st.names
    /\ pc' = "scan"
    /\ UNCHANGED << queried, names, info, config, environ, specs, q, cur, new_env,
                    lookups, respecs, scans, queue, job_idx, spawned, reported,
                    result >>

ScheduleScan ==
    /\ pc = "scan"
    /\ UNCHANGED opt
    /\ UNCHANGED runvars
    /\ Len(scheduled) < Len(respecs)
    /\ LET st == schedule_scan(respecs, 1,
                    [names |-> scheduled_names, order |-> scheduled])
       IN  /\ scheduled' = st.order
           /\ scheduled_names' = st.names
           /\ scans' = scans + 1
           /\ IF Len(st.order) = Len(scheduled)
              THEN /\ result' = cycle_error(st.names, respecs)
                   /\ pc' = "failed"
              ELSE /\ result' = result
                   /\ pc' = "scan"
    /\ UNCHANGED << queried, names, info, config, environ, specs, q, cur, new_env,
                    lookups, respecs, queue, job_idx, spawned, reported >>

ScheduleReturn ==
    /\ pc = "scan"
    /\ UNCHANGED opt
    /\ UNCHANGED runvars
    /\ Len(scheduled) >= Len(respecs)
    /\ queue' = scheduled
    /\ pc' = "dispatch"
    /\ UNCHANGED << queried, names, info, config, environ, specs, q, cur, new_env,
                    lookups, respecs, scheduled, scheduled_names, scans,
                    job_idx, spawned, reported, result >>

-----------------------------------------------------------------------------
(* Formatting, permission bits and the files of a job directory *)

Digits == "0123456789"

\* format!("{}", n) for an unsigned n.
RECURSIVE nat_to_string(_)
nat_to_string(n) ==
    IF n < 10 THEN SubSeq(Digits, n + 1, n + 1)
    ELSE nat_to_string(n \div 10) \o SubSeq(Digits, (n % 10) + 1, (n % 10) + 1)

\* format!("{}", n) for an i32.
int_to_string(n) == IF n < 0 THEN "-" \o nat_to_string(0 - n) ELSE nat_to_string(n)

\* format!("{:03}", n): at least three digits, padded with zeros on the left.
format_03(n) ==
    LET digits == nat_to_string(n)
    IN  IF Len(digits) >= 3 THEN digits
        ELSE SubSeq("00", 1, 3 - Len(digits)) \o digits

RECURSIVE bit_or(_, _)
bit_or(a, b) ==
    IF a = 0 THEN b
    ELSE IF b = 0 THEN a
    ELSE (IF a % 2 = 1 \/ b % 2 = 1 THEN 1 ELSE 0) + 2 * bit_or(a \div 2, b \div 2)

RECURSIVE bit_and(_, _)
bit_and(a, b) ==
    IF a = 0 \/ b = 0 THEN 0
    ELSE (IF a % 2 = 1 /\ b % 2 = 1 THEN 1 ELSE 0) + 2 * bit_and(a \div 2, b \div 2)

\* The literal or-ed into the mode by ensure_executable (a decimal literal).
ADDED_MODE == 100

\* Path::is_file.
is_file(fs, file) == file \in DOMAIN fs /\ fs[file] # None

\* is_executable::is_executable: a file with some execute bit (0o111) set.
is_executable(fs, file) == is_file(fs, file) /\ bit_and(fs[file][1], 73) # 0

\* The mode ensure_executable leaves on a file whose mode was mode.
ensure_executable_mode(mode) ==
    IF bit_and(mode, 73) # 0 THEN mode ELSE bit_or(mode, ADDED_MODE)

\* ensure_executable on the file system: the file system afterwards.
ensure_executable(fs, file) ==
    IF is_executable(fs, file) THEN fs
    ELSE [fs EXCEPT ![file] = Some(ensure_executable_mode(fs[file][1]))]

\* ReadyJob::script_dir.
script_dir(job, root) == root \o "/" \o job.name

\* The path of a file of the job's directory.
script_path(job, root, file) == script_dir(job, root) \o "/" \o file

\* glob of run.* in the job's directory: the matches in alphabetical order.
glob_run(job, root, fs) ==
    LET py == script_path(job, root, "run.py")
        sh == script_path(job, root, "run.sh")
    IN  (IF py \in DOMAIN fs /\ fs[py] # None THEN << py >> ELSE << >>)
        \o (IF sh \in DOMAIN fs /\ fs[sh] # None THEN << sh >> ELSE << >>)

\* ReadyJob::find_runner: run.sh when it is a file, else the first match of
\* run.*, else None ("No runner found").
find_runner(job, root, fs) ==
    LET default == script_path(job, root, "run.sh")
    IN  IF is_file(fs, default) THEN Some(default)
        ELSE IF glob_run(job, root, fs) # << >>
             THEN Some(glob_run(job, root, fs)[1])
             ELSE None

-----------------------------------------------------------------------------
(* ReadyJob::create_proc_env and ReadyJob::report *)

\* The for loop of create_proc_env, over the keys of self.env in the order
\* the HashMap yields them.
RECURSIVE encode_env(_, _, _, _)
encode_env(env, order, i, map) ==
    IF i > Len(order) THEN map
    ELSE encode_env(env, order, i + 1,
                    map_insert(map, encode_key(order[i]), env[order[i]]))

\* Mutant of create_proc_env: the four keys are inserted first, so that a
\* key of the job's env replaces them.
create_proc_env_declared_wins(job, order, home, user, root) ==
    LET with_home == map_insert(EmptyMap, "HOME", home)
        with_user == map_insert(with_home, "USER", user)
        with_username == map_insert(with_user, "USERNAME", user)
        injected == map_insert(with_username, "SCRIPT_DIR", script_dir(job, root))
    IN  encode_env(job.env, order, 1, injected)

\* ReadyJob::create_proc_env: the job's env under encoded keys, then HOME,
\* USER, USERNAME and SCRIPT_DIR.
create_proc_env(job, order, home, user, root) ==
    LET copied == encode_env(job.env, order, 1, EmptyMap)
        with_home == map_insert(copied, "HOME", home)
        with_user == map_insert(with_home, "USER", user)
        with_username == map_insert(with_user, "USERNAME", user)
    IN  map_insert(with_username, "SCRIPT_DIR", script_dir(job, root))

\* dirs::home_dir(): the home directory, or None when it cannot be found.
HomeDirs == {None, Some("/home/u")}

\* whoami::username().
UserName == "u"

\* ReadyJob::report: the text printed for one job, by its parts.
report(job, job_num) ==
    [index |-> format_03(job_num), name |-> job.name, depends |-> job.depends,
     has_deps_script |-> job.has_deps_script, env |-> job.env]

-----------------------------------------------------------------------------
(* run_all_jobs after scheduling: report, or run the queue *)

\* report_jobs: one report per job, numbered by its position in enumerate().
report_jobs(jobs) == [k \in 1..Len(jobs) |-> report(jobs[k], k - 1)]

\* Mutant of find_job: the head of the queue is taken, whatever its name.
find_job_first(jobs, jobname) == IF Len(jobs) > 0 THEN 1 ELSE 0

\* queue.iter().find(|job| &job.name == jobname): the first position, or 0.
find_job(jobs, jobname) ==
    IF \E k \in 1..Len(jobs) : jobs[k].name = jobname
    THEN CHOOSE k \in 1..Len(jobs) :
            /\ jobs[k].name = jobname
            /\ \A k2 \in 1..(k - 1) : jobs[k2].name # jobname
    ELSE 0

\* What Command::status() can yield for a started child: an exit code, or
\* no code when a signal ended the child.
ExitStatuses == {Some(0), Some(1), Some(255), None}

\* Mutant of ExitText: a missing exit code is shown as 0.
ExitTextZero(status) == int_to_string(IF status = None THEN 0 ELSE status[1])

\* status.code().unwrap_or(-1), as the error message shows it.
ExitText(status) == int_to_string(IF status = None THEN 0 - 1 ELSE status[1])

\* Mutant of Dispatch: the single-job selector is looked at before dry_run.
DispatchSelectorFirst ==
    /\ pc = "dispatch"
    /\ UNCHANGED opt
    /\ UNCHANGED runvars
    /\ IF config.single_job # None
       THEN LET k == find_job(queue, config.single_job[1])
            IN  IF k = 0
                THEN /\ result' = Err("Cannot locate job", config.single_job)
                     /\ pc' = "failed"
                     /\ UNCHANGED << job_idx, reported >>
                ELSE /\ job_idx' = k
                     /\ pc' = "run"
                     /\ UNCHANGED << result, reported >>
       ELSE IF config.dry_run
            THEN /\ reported' = report_jobs(queue)
                 /\ result' = Ok
                 /\ pc' = "done"
                 /\ UNCHANGED job_idx
            ELSE IF Len(queue) = 0
                 THEN /\ result' = Ok
                      /\ pc' = "done"
                      /\ UNCHANGED << job_idx, reported >>
                 ELSE /\ job_idx' = 1
                      /\ pc' = "run"
                      /\ UNCHANGED << result, reported >>
    /\ UNCHANGED << queried, names, info, config, environ, specs, q, cur, new_env,
                    lookups, respecs, scheduled, scheduled_names, scans, queue,
                    spawned >>

\* run_all_jobs after schedule_specs: the report of a dry run, the selected
\* job, or the first job of the queue.
Dispatch ==
    /\ pc = "dispatch"
    /\ UNCHANGED opt
    /\ UNCHANGED runvars
    /\ IF config.dry_run
       THEN /\ reported' = report_jobs(queue)
            /\ result' = Ok
            /\ pc' = "done"
            /\ UNCHANGED job_idx
       ELSE IF config.single_job # None
            THEN LET k == find_job(queue, config.single_job[1])
                 IN  IF k = 0
                     THEN /\ result' = Err("Cannot locate job", config.single_job)
                          /\ pc' = "failed"
                          /\ UNCHANGED << job_idx, reported >>
                     ELSE /\ job_idx' = k
                          /\ pc' = "run"
                          /\ UNCHANGED << result, reported >>
            ELSE IF Len(queue) = 0
                 THEN /\ result' = Ok
                      /\ pc' = "done"
                      /\ UNCHANGED << job_idx, reported >>
                 ELSE /\ job_idx' = 1
                      /\ pc' = "run"
                      /\ UNCHANGED << result, reported >>
    /\ UNCHANGED << queried, names, info, config, environ, specs, q, cur, new_env,
                    lookups, respecs, scheduled, scheduled_names, scans, queue,
                    spawned >>

\* What run_all_jobs does once job.run has returned Ok: the next job of
\* try_for_each, or the end of the run (also after the single selected job).
AfterJob ==
    IF config.single_job # None \/ job_idx = Len(queue)
    THEN /\ result' = Ok
         /\ pc' = "done"
         /\ UNCHANGED job_idx
    ELSE /\ job_idx' = job_idx + 1
         /\ pc' = "run"
         /\ UNCHANGED result

\* Mutant of CreateProcEnv: the job asks for a variable when it starts.
CreateProcEnvAsking ==
    /\ pc = "run"
    /\ UNCHANGED opt
    /\ lookups' = Append(lookups, Lookup("prompt", queue[job_idx].name, None))
    /\ \E home \in HomeDirs, order \in DrainOrders(DOMAIN queue[job_idx].env) :
          IF home = None
          THEN /\ result' = Err("Cannot find home dir", << >>)
               /\ pc' = "failed"
               /\ UNCHANGED proc_env
          ELSE /\ proc_env' = create_proc_env(queue[job_idx], order, home[1],
                                              UserName, config.root_dir)
               /\ pc' = "deps"
               /\ UNCHANGED result
    /\ UNCHANGED << queried, names, info, config, environ, specs, q, cur, new_env,
                    respecs, scheduled, scheduled_names, scans, queue,
                    job_idx, spawned, reported, modes, tmp_dirs, runnable, located >>

\* ReadyJob::run, first statement: create_proc_env.
CreateProcEnv ==
    /\ pc = "run"
    /\ UNCHANGED opt
    /\ \E home \in HomeDirs, order \in DrainOrders(DOMAIN queue[job_idx].env) :
          IF home = None
          THEN /\ result' = Err("Cannot find home dir", << >>)
               /\ pc' = "failed"
               /\ UNCHANGED proc_env
          ELSE /\ proc_env' = create_proc_env(queue[job_idx], order, home[1],
                                              UserName, config.root_dir)
               /\ pc' = "deps"
               /\ UNCHANGED result
    /\ UNCHANGED << queried, names, info, config, environ, specs, q, cur, new_env,
                    lookups, respecs, scheduled, scheduled_names, scans, queue,
                    job_idx, spawned, reported, modes, tmp_dirs, runnable, located >>

\* Mutant of RunDepsScript: the deps script is never run.
RunDepsScriptSkipped ==
    /\ pc = "deps"
    /\ UNCHANGED opt
    /\ pc' = "find"
    /\ UNCHANGED runnable
    /\ UNCHANGED << queried, names, info, config, environ, specs, q, cur, new_env,
                    lookups, respecs, scheduled, scheduled_names, scans, queue,
                    job_idx, spawned, reported, result, modes, tmp_dirs, proc_env,
                    located >>

\* ReadyJob::run: the deps script is handed to run_process when
\* has_deps_script is set.
RunDepsScript ==
    /\ pc = "deps"
    /\ UNCHANGED opt
    /\ IF queue[job_idx].has_deps_script
       THEN /\ runnable' = Some([path |-> script_path(queue[job_idx], config.root_dir,
                                                      DEPS_SCRIPT),
                                 script |-> "deps"])
            /\ pc' = "ensure"
       ELSE /\ pc' = "find"
            /\ UNCHANGED runnable
    /\ UNCHANGED << queried, names, info, config, environ, specs, q, cur, new_env,
                    lookups, respecs, scheduled, scheduled_names, scans, queue,
                    job_idx, spawned, reported, result, modes, tmp_dirs, proc_env,
                    located >>

\* ReadyJob::run: find_runner, and the runner handed to run_process.
RunMain ==
    /\ pc = "find"
    /\ UNCHANGED opt
    /\ LET runner == find_runner(queue[job_idx], config.root_dir, modes)
       IN  /\ located' = Append(located, [pos |-> job_idx, job |-> queue[job_idx].name,
                                          runner |-> runner])
           /\ IF runner = None
              THEN /\ result' = Err("No runner found", << >>)
                   /\ pc' = "failed"
                   /\ UNCHANGED runnable
              ELSE /\ runnable' = Some([path |-> runner[1], script |-> "run"])
                   /\ pc' = "ensure"
                   /\ UNCHANGED result
    /\ UNCHANGED << queried, names, info, config, environ, specs, q, cur, new_env,
                    lookups, respecs, scheduled, scheduled_names, scans, queue,
                    job_idx, spawned, reported, modes, tmp_dirs, proc_env >>

-----------------------------------------------------------------------------
(* ReadyJob::run_process *)

\* TempDir::new(prefix): a fresh directory named after the prefix.
new_tmp_dir(prefix, made) ==
    [prefix |-> prefix, path |-> "/tmp/" \o prefix \o "." \o nat_to_string(made + 1),
     exists |-> TRUE]

\* Mutant of drop_tmp_dir: the directory is left on disk.
keep_tmp_dir(dirs, k) == dirs

\* Drop of a TempDir: the directory is removed.
drop_tmp_dir(dirs, k) == [dirs EXCEPT ![k].exists = FALSE]

\* The environment of the child: the inherited one, then envs(env), then
\* TMP_DIR and TEMP_DIR.
child_env(inherited, env, tmp_path) ==
    LET keys == DOMAIN inherited \cup DOMAIN env \cup {"TMP_DIR", "TEMP_DIR"}
    IN  [k \in keys |-> IF k \in {"TMP_DIR", "TEMP_DIR"} THEN tmp_path
                        ELSE IF k \in DOMAIN env THEN env[k]
                        ELSE inherited[k]]

\* run_process, first statement: ensure_executable(&runnable)?.
EnsureExecutable ==
    /\ pc = "ensure"
    /\ UNCHANGED opt
    /\ LET file == runnable[1].path
       IN  IF is_executable(modes, file)
           THEN /\ pc' = "mktemp"
                /\ UNCHANGED << modes, result >>
           ELSE IF ~is_file(modes, file)
                THEN /\ result' = Err("io error", << "metadata" >>)
                     /\ pc' = "failed"
                     /\ UNCHANGED modes
                ELSE \E permitted \in BOOLEAN :
                        IF permitted
                        THEN /\ modes' = ensure_executable(modes, file)
                             /\ pc' = "mktemp"
                             /\ UNCHANGED result
                        ELSE /\ result' = Err("io error", << "set_permissions" >>)
                             /\ pc' = "failed"
                             /\ UNCHANGED modes
    /\ UNCHANGED << queried, names, info, config, environ, specs, q, cur, new_env,
                    lookups, respecs, scheduled, scheduled_names, scans, queue,
                    job_idx, spawned, reported, tmp_dirs, proc_env, runnable,
                    located >>

\* run_process: TempDir::new(&self.name)?.
CreateTempDir ==
    /\ pc = "mktemp"
    /\ UNCHANGED opt
    /\ \E created \in BOOLEAN :
          IF created
          THEN /\ tmp_dirs' = Append(tmp_dirs,
                                     new_tmp_dir(queue[job_idx].name, Len(tmp_dirs)))
               /\ pc' = "spawn"
               /\ UNCHANGED result
          ELSE /\ result' = Err("io error", << "TempDir::new" >>)
               /\ pc' = "failed"
               /\ UNCHANGED tmp_dirs
    /\ UNCHANGED << queried, names, info, config, environ, specs, q, cur, new_env,
                    lookups, respecs, scheduled, scheduled_names, scans, queue,
                    job_idx, spawned, reported, modes, proc_env, runnable, located >>

\* Mutant of SpawnChild: the child is started and not waited for.
SpawnChildDetached ==
    /\ pc = "spawn"
    /\ UNCHANGED opt
    /\ spawned' = Append(spawned,
          [pos |-> job_idx, job |-> queue[job_idx].name,
           script |-> runnable[1].script, path |-> runnable[1].path,
           env |-> child_env(environ, proc_env, tmp_dirs[Len(tmp_dirs)].path),
           tmp |-> Len(tmp_dirs), exited |-> FALSE, status |-> None])
    /\ tmp_dirs' = drop_tmp_dir(tmp_dirs, Len(tmp_dirs))
    /\ runnable' = None
    /\ IF runnable[1].script = "deps"
       THEN /\ pc' = "find"
            /\ UNCHANGED << result, job_idx >>
       ELSE AfterJob
    /\ UNCHANGED << queried, names, info, config, environ, specs, q, cur, new_env,
                    lookups, respecs, scheduled, scheduled_names, scans, queue,
                    reported, modes, proc_env, located >>

\* run_process: Command::new(runnable)...status() starts the child, or
\* fails to; on failure the ? returns and tmp_dir is dropped on the way out.
SpawnChild ==
    /\ pc = "spawn"
    /\ UNCHANGED opt
    /\ \E started \in BOOLEAN :
          IF started
          THEN /\ spawned' = Append(spawned,
                     [pos |-> job_idx, job |-> queue[job_idx].name,
                      script |-> runnable[1].script, path |-> runnable[1].path,
                      env |-> child_env(environ, proc_env,
                                        tmp_dirs[Len(tmp_dirs)].path),
                      tmp |-> Len(tmp_dirs), exited |-> FALSE, status |-> None])
               /\ pc' = "wait"
               /\ UNCHANGED << tmp_dirs, result >>
          ELSE /\ tmp_dirs' = drop_tmp_dir(tmp_dirs, Len(tmp_dirs))
               /\ result' = Err("io error", << "spawn" >>)
               /\ pc' = "failed"
               /\ UNCHANGED spawned
    /\ UNCHANGED << queried, names, info, config, environ, specs, q, cur, new_env,
                    lookups, respecs, scheduled, scheduled_names, scans, queue,
                    job_idx, reported, modes, proc_env, runnable, located >>

\* Mutant of ChildExit: the run goes on whatever the exit status was.
ChildExitBestEffort ==
    /\ pc = "wait"
    /\ UNCHANGED opt
    /\ \E status \in ExitStatuses :
          /\ spawned' = [spawned EXCEPT ![Len(spawned)] =
                            [@ EXCEPT !.exited = TRUE, !.status = status]]
          /\ tmp_dirs' = drop_tmp_dir(tmp_dirs, Len(tmp_dirs))
          /\ runnable' = None
          /\ IF runnable[1].script = "deps"
             THEN /\ pc' = "find"
                  /\ UNCHANGED << result, job_idx >>
             ELSE AfterJob
    /\ UNCHANGED << queried, names, info, config, environ, specs, q, cur, new_env,
                    lookups, respecs, scheduled, scheduled_names, scans, queue,
                    reported, modes, proc_env, located >>

\* run_process: status() returns once the child has ended; tmp_dir is
\* dropped; the status decides the result.  After the deps script the run
\* goes on to find_runner, after the main runnable to the next job.
ChildExit ==
    /\ pc = "wait"
    /\ UNCHANGED opt
    /\ \E status \in ExitStatuses :
          /\ spawned' = [spawned EXCEPT ![Len(spawned)] =
                            [@ EXCEPT !.exited = TRUE, !.status = status]]
          /\ tmp_dirs' = drop_tmp_dir(tmp_dirs, Len(tmp_dirs))
          /\ IF status = Some(0)
             THEN /\ runnable' = None
                  /\ IF runnable[1].script = "deps"
                     THEN /\ pc' = "find"
                          /\ UNCHANGED << result, job_idx >>
                     ELSE AfterJob
             ELSE /\ result' = Err("Job failed",
                                   << queue[job_idx].name, ExitText(status) >>)
                  /\ pc' = "failed"
                  /\ UNCHANGED << job_idx, runnable >>
    /\ UNCHANGED << queried, names, info, config, environ, specs, q, cur, new_env,
                    lookups, respecs, scheduled, scheduled_names, scans, queue,
                    reported, modes, proc_env, located >>

-----------------------------------------------------------------------------
(* config.rs: the Config built from the command line *)

\* The character classes [A-Z\d] and [A-Z\d_] of the pattern.
KeyHeadClass == UpperCase \o Digits

KeyTailClass == UpperCase \o Digits \o "_"

in_class(c, class) == \E i \in 1..Len(class) : SubSeq(class, i, i) = c

\* \s* at the start of s: what is left of s.
RECURSIVE skip_spaces(_)
skip_spaces(s) ==
    IF Len(s) > 0 /\ SubSeq(s, 1, 1) = " " THEN skip_spaces(SubSeq(s, 2, Len(s)))
    ELSE s

\* The length of the longest prefix of s made of characters of the class.
RECURSIVE class_run(_, _)
class_run(s, class) ==
    IF Len(s) > 0 /\ in_class(SubSeq(s, 1, 1), class)
    THEN 1 + class_run(SubSeq(s, 2, Len(s)), class)
    ELSE 0

\* s without the whitespace at its end, down to one character.
RECURSIVE trim_end(_)
trim_end(s) ==
    IF Len(s) > 1 /\ SubSeq(s, Len(s), Len(s)) = " "
    THEN trim_end(SubSeq(s, 1, Len(s) - 1))
    ELSE s

\* (.+?)\s*$ after \s*: the shortest non-empty text followed by whitespace
\* only; a rest of whitespace only yields its last character.
capture_value(rest) ==
    IF skip_spaces(rest) = "" THEN SubSeq(rest, Len(rest), Len(rest))
    ELSE trim_end(skip_spaces(rest))

\* pattern.captures(line) for ^\s*([A-Z\d][A-Z\d_]+)\s*=\s*(.+?)\s*$ :
\* the two groups, or None.
regex_captures(line) ==
    LET body == skip_spaces(line)
        n == class_run(body, KeyTailClass)
        after_key == skip_spaces(SubSeq(body, n + 1, Len(body)))
    IN  IF /\ n >= 2
           /\ in_class(SubSeq(body, 1, 1), KeyHeadClass)
           /\ Len(after_key) >= 2
           /\ SubSeq(after_key, 1, 1) = "="
        THEN Some([key |-> SubSeq(body, 1, n),
                   value |-> capture_value(SubSeq(after_key, 2, Len(after_key)))])
        ELSE None

try_parse_var_string(line, from) ==
    LET captures == regex_captures(line)
    IN  IF captures = None
        THEN [ok |-> FALSE, err |-> Err("Unparseable line", << from, line >>)]
        ELSE [ok |-> TRUE, key |-> captures[1].key, value |-> captures[1].value]

\* parse_var_strings: every entry is parsed with the source "askfile"; the
\* first entry that does not parse ends the loop with its error.
RECURSIVE parse_var_strings(_, _, _)
parse_var_strings(pairs, i, map) ==
    IF i > Len(pairs) THEN [ok |-> TRUE, map |-> Some(map)]
    ELSE LET parsed == try_parse_var_string(pairs[i], "askfile")
         IN  IF parsed.ok
             THEN parse_var_strings(pairs, i + 1,
                                    map_insert(map, parsed.key, parsed.value))
             ELSE [ok |-> FALSE, err |-> parsed.err]

\* parse_askfile: the file is opened and read line by line.
parse_askfile(file) ==
    IF file.lines = None THEN [ok |-> FALSE, err |-> Err("io error", << file.path >>)]
    ELSE parse_var_strings(file.lines[1], 1, EmptyMap)

parse_cmd_vars(pairs) == parse_var_strings(pairs, 1, EmptyMap)

\* Config::try_from(Opt): the variables file first, then the command-line
\* pairs, then the flags.
config_try_from(o) ==
    LET ask_file_vars == IF o.ask_file # None THEN parse_askfile(o.ask_file[1])
                         ELSE [ok |-> TRUE, map |-> None]
        cmd_vars == IF o.ask_vars # None THEN parse_cmd_vars(o.ask_vars[1])
                    ELSE [ok |-> TRUE, map |-> None]
    IN  IF ~ask_file_vars.ok THEN ask_file_vars
        ELSE IF ~cmd_vars.ok THEN cmd_vars
        ELSE [ok |-> TRUE,
              config |-> [ask_file_vars |-> ask_file_vars.map,
                          cmd_vars |-> cmd_vars.map,
                          root_dir |-> o.script_root,
                          single_job |-> o.single_job,
                          allow_env |-> ~o.no_allow_env,
                          dry_run |-> o.dry_run,
                          empty_vars |-> o.force_empty_vars,
                          interactive |-> o.interactive]]

\* inner_main: Opt::from_args().try_into()?, then run_all_jobs.
ConfigTryFrom ==
    /\ pc = "config"
    /\ UNCHANGED opt
    /\ UNCHANGED runvars
    /\ LET built == config_try_from(opt[1])
       IN  IF built.ok
           THEN /\ config' = built.config
                /\ pc' = "start"
                /\ UNCHANGED result
           ELSE /\ result' = built.err
                /\ pc' = "failed"
                /\ UNCHANGED config
    /\ UNCHANGED << queried, names, info, environ, specs, q, cur, new_env, lookups,
                    respecs, scheduled, scheduled_names, scans, queue, job_idx,
                    spawned, reported >>

-----------------------------------------------------------------------------
(* Inputs of the scheduler specification *)

JobNames == {"base", "mid", "top"}

\* A dependency name that is the name of no job directory.
Ghost == "ghost"

DepNames == JobNames \cup {Ghost}

JobNames4 == JobNames \cup {"side"}

SeqsUpTo(S, n) == UNION {[1..k -> S] : k \in 0..n}

Range(s) == {s[i] : i \in 1..Len(s)}

DefaultInfo ==
    [depends |-> {}, ask |-> << >>, env |-> EmptyMap, has_deps_script |-> FALSE]

DefaultConfig ==
    [ask_file_vars |-> None, cmd_vars |-> None, root_dir |-> "jobs",
     single_job |-> None,
     allow_env |-> TRUE, dry_run |-> FALSE, empty_vars |-> FALSE,
     interactive |-> FALSE]

ParsedSpecs(ns, inf) == [i \in 1..Len(ns) |-> parse_job_files(ns[i], inf)]

\* The job runner before any job has been run (the command line is not
\* looked at once the Config has been built).
RunnerAtStart ==
    /\ opt = None
    /\ tmp_dirs = << >>
    /\ proc_env = EmptyMap
    /\ runnable = None
    /\ located = << >>

NoQuery == [raw |-> "", name |-> "", secure |-> FALSE, value |-> None]

\* The state in which schedule_specs is entered for jobs that ask for no
\* variable and declare no environment: only names and dependencies vary.
\* The same name may be discovered more than once (one entry per run.* file
\* of its directory) and then carries the same info.json.
InitSched ==
    /\ names \in SeqsUpTo(JobNames, MaxJobs)
    /\ \E deps \in [Range(names) -> SUBSET DepNames] :
          info = [n \in JobNames4 |->
                    IF n \in Range(names)
                    THEN [DefaultInfo EXCEPT !.depends = deps[n]]
                    ELSE DefaultInfo]
    /\ config = DefaultConfig
    /\ environ = EmptyMap
    /\ specs = ParsedSpecs(names, info)
    /\ q = 1
    /\ cur = NoQuery
    /\ new_env = EmptyMap
    /\ lookups = << >>
    /\ queried = << >>
    /\ respecs = [i \in 1..Len(names) |->
                    ReadyJob(names[i], EmptyMap, info[names[i]].depends, FALSE)]
    /\ scheduled = << >>
    /\ scheduled_names = {}
    /\ scans = 0
    /\ queue = << >>
    /\ job_idx = 0
    /\ spawned = << >>
    /\ reported = << >>
    /\ result = Running
    /\ pc = "schedule"
    /\ modes = EmptyMap
    /\ RunnerAtStart

\* A second family of inputs: every list without repetition over four job
\* names, each job with at most one dependency (long chains and several
\* jobs becoming ready in the same pass).
InitOrder ==
    /\ names \in {s \in SeqsUpTo(JobNames4, Cardinality(JobNames4)) :
                    \A i, j \in 1..Len(s) : s[i] = s[j] => i = j}
    /\ \E deps \in [Range(names) -> {d \in SUBSET JobNames4 : Cardinality(d) <= 1}] :
          info = [n \in JobNames4 |->
                    IF n \in Range(names)
                    THEN [DefaultInfo EXCEPT !.depends = deps[n]]
                    ELSE DefaultInfo]
    /\ config = DefaultConfig
    /\ environ = EmptyMap
    /\ specs = ParsedSpecs(names, info)
    /\ q = 1
    /\ cur = NoQuery
    /\ new_env = EmptyMap
    /\ lookups = << >>
    /\ queried = << >>
    /\ respecs = [i \in 1..Len(names) |->
                    ReadyJob(names[i], EmptyMap, info[names[i]].depends, FALSE)]
    /\ scheduled = << >>
    /\ scheduled_names = {}
    /\ scans = 0
    /\ queue = << >>
    /\ job_idx = 0
    /\ spawned = << >>
    /\ reported = << >>
    /\ result = Running
    /\ pc = "schedule"
    /\ modes = EmptyMap
    /\ RunnerAtStart

NextSched == ScheduleRoots \/ ScheduleScan \/ ScheduleReturn

SpecSched == (InitSched \/ InitOrder) /\ [][NextSched]_vars

-----------------------------------------------------------------------------
(* Inputs of the resolution specification *)

\* The state of run_all_jobs when it is entered.
ControlAtStart ==
    /\ specs = << >>
    /\ q = 1
    /\ cur = NoQuery
    /\ new_env = EmptyMap
    /\ lookups = << >>
    /\ queried = << >>
    /\ respecs = << >>
    /\ scheduled = << >>
    /\ scheduled_names = {}
    /\ scans = 0
    /\ queue = << >>
    /\ job_idx = 0
    /\ spawned = << >>
    /\ reported = << >>
    /\ result = Running
    /\ pc = "start"
    /\ RunnerAtStart

\* Names a job may list under "ask".
AskNames == {"TOKEN", "TOKEN_SECURE", "DB_SECURE_KEY_SECURE"}

Environs == {EmptyMap, "TOKEN" :> "", "TOKEN" :> "e"}

CmdVars == {None, Some("TOKEN" :> "c")}

FileVars == {None, Some(("TOKEN" :> "f") @@ ("DB_KEY" :> "f"))}

\* Declared environments: none, one whose key normalises to the name of an
\* ask variable, and one whose key holds a dot and a dash.
ProvidedEnvs == {EmptyMap, "token" :> "x", "db.host-a" :> "h"}

\* What the second job asks for.
SecondAsks == {<< >>, << "TOKEN" >>, << "TOKEN_SECURE" >>}

\* Two jobs: the first asks for at most MaxAsk variables and may declare an
\* environment of its own, the second asks for at most one.
InitVars ==
    /\ names = << "base", "mid" >>
    /\ \E a1 \in SeqsUpTo(AskNames, MaxAsk), a2 \in SecondAsks, e1 \in ProvidedEnvs :
          /\ info = [n \in JobNames4 |->
                       IF n = "base" THEN [DefaultInfo EXCEPT !.ask = a1, !.env = e1]
                       ELSE IF n = "mid" THEN [DefaultInfo EXCEPT !.ask = a2]
                       ELSE DefaultInfo]
    /\ \E ev, al, in \in BOOLEAN, cv \in CmdVars, fv \in FileVars :
          config = [DefaultConfig EXCEPT !.empty_vars = ev, !.allow_env = al,
                                         !.interactive = in, !.cmd_vars = cv,
                                         !.ask_file_vars = fv]
    /\ environ \in Environs
    /\ modes = EmptyMap
    /\ ControlAtStart

NextVars ==
    \/ GetJobNames
    \/ ParseJobFiles
    \/ QueryVars
    \/ TryEmptyVar
    \/ TryVarFromEnv
    \/ TryVarFromCmd
    \/ TryVarFromAskfile
    \/ TryAskUserForVar
    \/ QueryAnswer
    \/ FillAskedVars

SpecVars == InitVars /\ [][NextVars]_vars

-----------------------------------------------------------------------------
(* The whole run *)

MaxRunJobs == 2

RunNames == {"base", "mid"}

\* What a job directory can hold when its turn comes: deps.sh, run.sh and
\* run.py with their permission bits (0o755, 0o644, 0o600), or absent.
DirLayouts ==
    { [deps |-> Some(493), sh |-> Some(493), py |-> None],
      [deps |-> Some(420), sh |-> Some(384), py |-> None],
      [deps |-> None,      sh |-> None,      py |-> Some(420)],
      [deps |-> Some(384), sh |-> None,      py |-> None] }

\* The file system of a root holding the given jobs with the given layouts.
FileSystem(root, layout) ==
    LET file(n, f) == root \o "/" \o n \o "/" \o f
    IN  [p \in UNION {{file(n, "deps.sh"), file(n, "run.sh"), file(n, "run.py")} :
                         n \in DOMAIN layout} |->
           LET n == CHOOSE n \in DOMAIN layout :
                       p \in {file(n, "deps.sh"), file(n, "run.sh"), file(n, "run.py")}
           IN  IF p = file(n, "deps.sh") THEN layout[n].deps
               ELSE IF p = file(n, "run.sh") THEN layout[n].sh
               ELSE layout[n].py]

Init ==
    /\ names \in SeqsUpTo(RunNames, MaxRunJobs)
    /\ \E deps \in [Range(names) -> SUBSET {"base"}],
          ask \in {<< >>, << "TOKEN_SECURE" >>}, script \in BOOLEAN :
          info = [n \in JobNames4 |->
                    IF n \notin Range(names) THEN DefaultInfo
                    ELSE IF n = "base"
                         THEN [DefaultInfo EXCEPT !.depends = deps[n], !.ask = ask]
                         ELSE [DefaultInfo EXCEPT !.depends = deps[n],
                                                  !.has_deps_script = script]]
    /\ \E ev, al, in, dr \in BOOLEAN, sj \in {None, Some("mid")} :
          config = [DefaultConfig EXCEPT !.empty_vars = ev, !.allow_env = al,
                                         !.interactive = in, !.dry_run = dr,
                                         !.single_job = sj]
    /\ environ \in {EmptyMap, "TOKEN" :> "e"}
    /\ \E layout \in DirLayouts :
          modes = FileSystem(DefaultConfig.root_dir, [n \in Range(names) |-> layout])
    /\ ControlAtStart

\* The permission specification: ensure_executable applied to one script,
\* for every value of the twelve permission bits.
ModeFile == "jobs/base/run.sh"

AllModes == 0..4095

InitMode ==
    /\ names = << "base" >>
    /\ info = [n \in JobNames4 |-> DefaultInfo]
    /\ config = DefaultConfig
    /\ environ = EmptyMap
    /\ \E mode \in AllModes : modes = (ModeFile :> Some(mode))
    /\ specs = ParsedSpecs(names, info)
    /\ q = 1
    /\ cur = NoQuery
    /\ new_env = EmptyMap
    /\ lookups = << >>
    /\ queried = << >>
    /\ respecs = << ReadyJob("base", EmptyMap, {}, FALSE) >>
    /\ scheduled = respecs
    /\ scheduled_names = {"base"}
    /\ scans = 0
    /\ queue = respecs
    /\ job_idx = 1
    /\ spawned = << >>
    /\ reported = << >>
    /\ result = Running
    /\ tmp_dirs = << >>
    /\ proc_env = create_proc_env(queue[1], << >>, "/home/u", UserName, config.root_dir)
    /\ runnable = Some([path |-> ModeFile, script |-> "run"])
    /\ located = << [pos |-> 1, job |-> "base", runner |-> Some(ModeFile)] >>
    /\ opt = None
    /\ pc = "ensure"

NextMode == EnsureExecutable

SpecMode == InitMode /\ [][NextMode]_vars

\* The environment specification: create_proc_env applied to one job whose
\* env holds at most MaxEnvKeys of these keys (as fill_asked_vars leaves
\* them), each with one of two values.
EnvKeys == {"HOME", "USER", "USERNAME", "SCRIPT_DIR", "TOKEN", "DB.HOST_A"}

EnvValues == {"x", "y"}

MaxEnvKeys == 4

JobEnvs ==
    UNION {[keys -> EnvValues] :
              keys \in {ks \in SUBSET EnvKeys : Cardinality(ks) <= MaxEnvKeys}}

InitEnv ==
    /\ \E n \in RunNames : names = << n >>
    /\ info = [n \in JobNames4 |-> DefaultInfo]
    /\ config = DefaultConfig
    /\ environ = EmptyMap
    /\ modes = FileSystem(DefaultConfig.root_dir,
                          [n \in Range(names) |->
                             [deps |-> None, sh |-> Some(493), py |-> None]])
    /\ specs = ParsedSpecs(names, info)
    /\ q = 1
    /\ cur = NoQuery
    /\ new_env = EmptyMap
    /\ lookups = << >>
    /\ queried = << >>
    /\ \E env \in JobEnvs : respecs = << ReadyJob(names[1], env, {}, FALSE) >>
    /\ scheduled = respecs
    /\ scheduled_names = Range(names)
    /\ scans = 0
    /\ queue = respecs
    /\ job_idx = 1
    /\ spawned = << >>
    /\ reported = << >>
    /\ result = Running
    /\ pc = "run"
    /\ RunnerAtStart

NextEnv == CreateProcEnv

SpecEnv == InitEnv /\ [][NextEnv]_vars

\* The configuration specification: Config::try_from applied to a command
\* line with at most MaxPairs NAME=value pairs and a variables file of at
\* most MaxPairs lines (or no file, or a file that cannot be read).
MaxPairs == 2

\* Entries that match the pattern, and entries that do not (no "=", a key
\* of one character, no value).
GoodEntries == {"A1=x", " A1 = y ", "B_2=z"}

BadEntries == {"bad", "X=1", "A1="}

Entries == GoodEntries \cup BadEntries

DefaultOpt ==
    [interactive |-> FALSE, dry_run |-> FALSE, no_allow_env |-> FALSE,
     ask_file |-> None, ask_vars |-> None, single_job |-> None,
     force_empty_vars |-> FALSE, script_root |-> "jobs"]

InitConfig ==
    /\ \E pairs \in {None} \cup {Some(ps) : ps \in SeqsUpTo(Entries, MaxPairs)},
          lines \in {None} \cup {Some(ls) : ls \in SeqsUpTo(Entries, MaxPairs)},
          given \in BOOLEAN :
          opt = Some([DefaultOpt EXCEPT
                         !.ask_vars = pairs,
                         !.ask_file = IF given
                                      THEN Some([path |-> "vars.env", lines |-> lines])
                                      ELSE None])
    /\ config = None
    /\ names = << >>
    /\ info = [n \in JobNames4 |-> DefaultInfo]
    /\ environ = EmptyMap
    /\ modes = EmptyMap
    /\ specs = << >>
    /\ q = 1
    /\ cur = NoQuery
    /\ new_env = EmptyMap
    /\ lookups = << >>
    /\ queried = << >>
    /\ respecs = << >>
    /\ scheduled = << >>
    /\ scheduled_names = {}
    /\ scans = 0
    /\ queue = << >>
    /\ job_idx = 0
    /\ spawned = << >>
    /\ reported = << >>
    /\ result = Running
    /\ tmp_dirs = << >>
    /\ proc_env = EmptyMap
    /\ runnable = None
    /\ located = << >>
    /\ pc = "config"

NextConfig == ConfigTryFrom

SpecConfig == InitConfig /\ [][NextConfig]_vars

\* The runner specification: run_all_jobs from schedule_specs on, for jobs
\* that ask for nothing.  Dependencies, deps scripts and the contents of
\* each job directory vary, and so do dry_run and the single-job selector.
InitRun ==
    /\ names \in SeqsUpTo(RunNames, MaxRunJobs)
    /\ \E deps \in [Range(names) -> SUBSET RunNames],
          script \in [Range(names) -> BOOLEAN] :
          info = [n \in JobNames4 |->
                    IF n \in Range(names)
                    THEN [DefaultInfo EXCEPT !.depends = deps[n],
                                             !.has_deps_script = script[n]]
                    ELSE DefaultInfo]
    /\ \E dr \in BOOLEAN, sj \in {None, Some("mid")} :
          config = [DefaultConfig EXCEPT !.dry_run = dr, !.single_job = sj]
    /\ environ = EmptyMap
    /\ \E layout \in [Range(names) -> DirLayouts] :
          modes = FileSystem(DefaultConfig.root_dir, layout)
    /\ specs = ParsedSpecs(names, info)
    /\ q = 1
    /\ cur = NoQuery
    /\ new_env = EmptyMap
    /\ lookups = << >>
    /\ queried = << >>
    /\ respecs = [i \in 1..Len(names) |->
                    ReadyJob(names[i], EmptyMap, info[names[i]].depends,
                             info[names[i]].has_deps_script)]
    /\ scheduled = << >>
    /\ scheduled_names = {}
    /\ scans = 0
    /\ queue = << >>
    /\ job_idx = 0
    /\ spawned = << >>
    /\ reported = << >>
    /\ result = Running
    /\ pc = "schedule"
    /\ RunnerAtStart

NextRun ==
    \/ ScheduleRoots
    \/ ScheduleScan
    \/ ScheduleReturn
    \/ Dispatch
    \/ CreateProcEnv
    \/ RunDepsScript
    \/ RunMain
    \/ EnsureExecutable
    \/ CreateTempDir
    \/ SpawnChild
    \/ ChildExit

SpecRun == InitRun /\ [][NextRun]_vars

Next ==
    \/ GetJobNames
    \/ ParseJobFiles
    \/ QueryVars
    \/ TryEmptyVar
    \/ TryVarFromEnv
    \/ TryVarFromCmd
    \/ TryVarFromAskfile
    \/ TryAskUserForVar
    \/ QueryAnswer
    \/ FillAskedVars
    \/ ScheduleRoots
    \/ ScheduleScan
    \/ ScheduleReturn
    \/ Dispatch
    \/ CreateProcEnv
    \/ RunDepsScript
    \/ RunMain
    \/ EnsureExecutable
    \/ CreateTempDir
    \/ SpawnChild
    \/ ChildExit

Spec == Init /\ [][Next]_vars

-----------------------------------------------------------------------------
(* The dependency graph of the jobs handed to schedule_specs, stated on    *)
(* names and independently of the scheduling loop.                         *)

JobNameSet == {respecs[i].name : i \in 1..Len(respecs)}

NamesOf(js) == [i \in 1..Len(js) |-> js[i].name]

DependsOf(n) == UNION {respecs[i].depends : i \in {k \in 1..Len(respecs) : respecs[k].name = n}}

\* The names reachable from the names of S along "depends on" in one or
\* more steps (k bounds the path length; Cardinality(DepNames) suffices).
RECURSIVE ReachFrom(_, _)
ReachFrom(S, k) ==
    LET step == UNION {DependsOf(n) : n \in S}
    IN  IF k = 0 THEN {} ELSE step \cup ReachFrom(step, k - 1)

Reach(n) == ReachFrom({n}, Cardinality(DepNames \cup JobNames4))

UniqueNames ==
    \A i, j \in 1..Len(respecs) : respecs[i].name = respecs[j].name => i = j

KnownDeps == \A n \in JobNameSet : DependsOf(n) \subseteq JobNameSet

OnCycle(n) == n \in Reach(n)

HasCycle == \E n \in JobNameSet : OnCycle(n)

\* A job that can never run: on a cycle, naming a job that does not exist,
\* or depending, directly or not, on such a job.
Blocked(n) ==
    \E m \in {n} \cup Reach(n) :
        \/ m \notin JobNameSet
        \/ OnCycle(m)

SchedReturned == pc \in {"dispatch", "failed"}

Position(order, n) == CHOOSE k \in 1..Len(order) : order[k].name = n

\* C1: for jobs with unique names, an acyclic dependency graph and no unknown
\* dependency name, schedule_specs succeeds and returns every input job
\* exactly once, each strictly after all of its dependencies; the chain
\* base, mid -> base, top -> mid yields [base, mid, top] in any input order.
C1_TopologicalOrder ==
    (SchedReturned /\ UniqueNames /\ KnownDeps /\ ~HasCycle) =>
        /\ pc = "dispatch"
        /\ Len(queue) = Len(respecs)
        /\ \A i \in 1..Len(respecs) :
              Cardinality({k \in 1..Len(queue) : queue[k] = respecs[i]}) = 1
        /\ \A k \in 1..Len(queue) : \A d \in queue[k].depends :
              \E k2 \in 1..(k - 1) : queue[k2].name = d
        /\ ( /\ JobNameSet = {"base", "mid", "top"}
             /\ DependsOf("base") = {}
             /\ DependsOf("mid") = {"base"}
             /\ DependsOf("top") = {"mid"} )
           => NamesOf(queue) = << "base", "mid", "top" >>

C1_Witness ==
    /\ pc = "dispatch"
    /\ names = << "top", "mid", "base" >>
    /\ DependsOf("base") = {}
    /\ DependsOf("mid") = {"base"}
    /\ DependsOf("top") = {"mid"}
    /\ NamesOf(queue) = << "base", "mid", "top" >>

\* C2: when the dependency graph has a cycle (a self-dependency included),
\* schedule_specs returns an error and no order; for exactly the two jobs
\* A -> B, B -> A the error lists exactly A and B.
C2_CycleFails ==
    (SchedReturned /\ HasCycle) =>
        /\ pc = "failed"
        /\ ~result.ok
        /\ result.kind = "Unschedulable jobs"
        /\ queue = << >>
        /\ ( /\ Len(respecs) = 2
             /\ UniqueNames
             /\ \A i, j \in 1..2 : i # j => respecs[i].depends = {respecs[j].name} )
           => result.detail = NamesOf(respecs)

C2_Witness ==
    /\ pc = "failed"
    /\ names = << "mid", "base" >>
    /\ DependsOf("mid") = {"base"}
    /\ DependsOf("base") = {"mid"}
    /\ result.detail = << "mid", "base" >>

\* C3: when some job names a dependency that is no job of the input, the
\* loop ends (at most one pass per job) with the "Unschedulable jobs"
\* error, and a job with such a dependency is never put in the order.
C3_UnknownDependencyFails ==
    /\ scans <= Len(respecs)
    /\ \A k \in 1..Len(scheduled) : scheduled[k].depends \subseteq JobNameSet
    /\ (SchedReturned /\ ~KnownDeps) =>
          /\ pc = "failed"
          /\ result.kind = "Unschedulable jobs"
          /\ queue = << >>

C3_Witness ==
    /\ pc = "failed"
    /\ names = << "base", "mid" >>
    /\ DependsOf("base") = {}
    /\ DependsOf("mid") = {"base", Ghost}
    /\ NamesOf(scheduled) = << "base" >>
    /\ result.kind = "Unschedulable jobs"

\* C4: when schedule_specs fails, the error lists, in input order, exactly
\* the jobs whose name was never scheduled, and these are exactly the jobs
\* on a cycle or with an unknown dependency and the jobs that depend on
\* such a job, directly or not.
C4_ErrorListsBlockedJobs ==
    (pc = "failed") =>
        /\ result.kind = "Unschedulable jobs"
        /\ result.detail = NamesOf(SelectSeq(respecs, LAMBDA j : Blocked(j.name)))
        /\ Range(result.detail) = JobNameSet \ Range(NamesOf(scheduled))

C4_Witness ==
    /\ pc = "failed"
    /\ names = << "top", "base", "mid" >>
    /\ DependsOf("base") = {}
    /\ DependsOf("mid") = {"mid"}
    /\ DependsOf("top") = {"mid", "base"}
    /\ result.detail = << "top", "mid" >>

\* The algorithm of the specification, on positions of the input list:
\* start with the dependency-free jobs in input order, then scan the input
\* repeatedly, appending in input order each position not yet taken whose
\* dependencies are all names of positions already taken.
RECURSIVE RefRoots(_, _)
RefRoots(jobs, i) ==
    IF i = 0 THEN << >>
    ELSE IF jobs[i].depends = {}
         THEN Append(RefRoots(jobs, i - 1), i)
         ELSE RefRoots(jobs, i - 1)

RECURSIVE RefPass(_, _, _)
RefPass(jobs, i, taken) ==
    IF i = 0 THEN taken
    ELSE LET before == RefPass(jobs, i - 1, taken)
         IN  IF /\ i \notin Range(before)
                /\ jobs[i].depends \subseteq {jobs[k].name : k \in Range(before)}
             THEN Append(before, i)
             ELSE before

RECURSIVE RefFixpoint(_, _)
RefFixpoint(jobs, taken) ==
    LET next == RefPass(jobs, Len(jobs), taken)
    IN  IF next = taken THEN taken ELSE RefFixpoint(jobs, next)

RefOrder(jobs) ==
    LET taken == RefFixpoint(jobs, RefRoots(jobs, Len(jobs)))
    IN  [k \in 1..Len(taken) |-> jobs[taken[k]]]

\* C5: the order schedule_specs returns is the order of the specified
\* algorithm applied to the input list: dependency-free jobs first in input
\* order, then pass after pass the jobs that have become ready, in input
\* order.
C5_OrderIsSpecifiedOrder ==
    (pc = "dispatch") => queue = RefOrder(respecs)

C5_Witness ==
    /\ pc = "dispatch"
    /\ names = << "top", "mid", "base" >>
    /\ DependsOf("base") = {}
    /\ DependsOf("mid") = {"base"}
    /\ DependsOf("top") = {"base"}
    /\ NamesOf(queue) = << "base", "top", "mid" >>
    /\ scans = 1

-----------------------------------------------------------------------------
(* Variable resolution *)

\* The name under which query_single_var reads the environment, the
\* command-line pairs and the variables file for the current call.
SourceKey == secure_name_check(cur.name)[1]

\* What each source other than the prompt holds for the current call, in
\* the order of the chain.
StaticOffers ==
    << IF config.empty_vars THEN Some("") ELSE None,
       IF config.allow_env /\ SourceKey \in DOMAIN environ
          THEN Some(environ[SourceKey]) ELSE None,
       IF config.cmd_vars # None /\ SourceKey \in DOMAIN config.cmd_vars[1]
          THEN Some(config.cmd_vars[1][SourceKey]) ELSE None,
       IF config.ask_file_vars # None /\ SourceKey \in DOMAIN config.ask_file_vars[1]
          THEN Some(config.ask_file_vars[1][SourceKey]) ELSE None >>

SourceRank == [empty |-> 1, env |-> 2, cmd |-> 3, file |-> 4, prompt |-> 5]

FirstOffer ==
    IF \E i \in 1..4 : StaticOffers[i] # None
    THEN CHOOSE i \in 1..4 :
            /\ StaticOffers[i] # None
            /\ \A j \in 1..(i - 1) : StaticOffers[j] = None
    ELSE 5

\* The sources consulted by the current call of query_single_var.
CallLookups == SelectSeq(lookups, LAMBDA e : e.call = Len(queried))

\* C6: query_single_var yields the value of the first source that supplies
\* one, in the order forced-empty, environment (if allowed), command-line
\* pairs, variables file, prompt (if interactive); an empty string counts as
\* supplied; no source after the supplying one is consulted, so no prompt is
\* shown; with force-empty the value is "" whatever the sources hold.
C6_FirstSourceWins ==
    /\ (pc = "answer") =>
          /\ FirstOffer <= 4 => cur.value = StaticOffers[FirstOffer]
          /\ config.empty_vars => cur.value = Some("")
          /\ \A k \in 1..Len(CallLookups) :
                /\ SourceRank[CallLookups[k].source] <= FirstOffer
                /\ \A k2 \in 1..(k - 1) :
                      /\ SourceRank[CallLookups[k2].source] < SourceRank[CallLookups[k].source]
                      /\ CallLookups[k2].got = None
          /\ FirstOffer = 5 =>
                IF config.interactive
                THEN /\ CallLookups # << >>
                     /\ CallLookups[Len(CallLookups)].source = "prompt"
                     /\ cur.value = CallLookups[Len(CallLookups)].got
                ELSE cur.value = None
    /\ (pc = "query" /\ cur.value # None) =>
          /\ cur.name \in DOMAIN new_env
          /\ new_env[cur.name] = cur.value[1]

C6_Witness ==
    /\ pc = "answer"
    /\ cur.raw = "TOKEN"
    /\ ~config.empty_vars
    /\ config.allow_env
    /\ environ = ("TOKEN" :> "")
    /\ config.cmd_vars = Some("TOKEN" :> "c")
    /\ config.ask_file_vars # None
    /\ config.interactive
    /\ cur.value = Some("")
    /\ Len(CallLookups) = 1

\* The asked name with a trailing secure suffix removed, nothing else changed.
WithoutTrailingSuffix(raw) ==
    IF ends_with(raw, SECURE_SUFFIX)
    THEN SubSeq(raw, 1, Len(raw) - Len(SECURE_SUFFIX))
    ELSE raw

\* C7: for an asked name ending in _SECURE, every source is read under, and
\* the value is stored under, the asked name without that trailing suffix
\* and otherwise unchanged; the prompt is masked exactly when the asked name
\* ended in the suffix.
C7_SuffixStripped ==
    /\ \A k \in 1..Len(lookups) :
          /\ lookups[k].key = WithoutTrailingSuffix(lookups[k].raw)
          /\ lookups[k].source = "prompt" =>
                lookups[k].masked = ends_with(lookups[k].raw, SECURE_SUFFIX)
    /\ cur # NoQuery =>
          /\ cur.name = WithoutTrailingSuffix(cur.raw)
          /\ ~ends_with(cur.name, SECURE_SUFFIX)
    /\ \A i \in 1..Len(respecs) : \A k \in 1..Len(specs[i].ask_for_vars) :
          WithoutTrailingSuffix(specs[i].ask_for_vars[k]) \in DOMAIN respecs[i].env

\* C8: in one run of query_vars every logical variable name (suffix
\* stripped) goes through query_single_var at most once.
C8_ResolvedOnce ==
    \A i, j \in 1..Len(queried) : queried[i] = queried[j] => i = j

\* The key fill_asked_vars stores an asked variable under.
AskKey(raw) == secure_name_check(raw)[1]

AsksFor(i, key) ==
    \E k \in 1..Len(specs[i].ask_for_vars) : AskKey(specs[i].ask_for_vars[k]) = key

Declares(i, key) ==
    \E k \in DOMAIN specs[i].provided_env : encode_key(k) = key

ResolutionDone == pc = "schedule" /\ Len(respecs) = Len(specs)

\* C9 as stated: after the resolution pass, all jobs that ask for the same
\* logical variable name hold the same value under that key.
C9_SameValueInEveryJob ==
    ResolutionDone =>
        \A i, j \in 1..Len(respecs) : \A key \in DOMAIN new_env :
            (AsksFor(i, key) /\ AsksFor(j, key)) =>
                /\ key \in DOMAIN respecs[i].env
                /\ key \in DOMAIN respecs[j].env
                /\ respecs[i].env[key] = respecs[j].env[key]

\* C9 as amended: after the resolution pass, every job that asks for a
\* logical variable name and declares no environment key that normalises
\* to that name holds, under that key, the one value the pass cached.
C9_SameValueUnlessDeclared ==
    ResolutionDone =>
        \A i \in 1..Len(respecs) : \A key \in DOMAIN new_env :
            (AsksFor(i, key) /\ ~Declares(i, key)) =>
                /\ key \in DOMAIN respecs[i].env
                /\ respecs[i].env[key] = new_env[key]

C9_Witness ==
    /\ ResolutionDone
    /\ specs[1].ask_for_vars = << "TOKEN_SECURE" >>
    /\ specs[2].ask_for_vars = << "TOKEN" >>
    /\ specs[1].provided_env = EmptyMap
    /\ respecs[1].env = ("TOKEN" :> "p")
    /\ respecs[2].env = ("TOKEN" :> "p")

\* The ask variables of all discovered jobs, in job order.
RECURSIVE AskedFrom(_)
AskedFrom(i) ==
    IF i > Len(names) THEN << >> ELSE info[names[i]].ask \o AskedFrom(i + 1)

AllAsked == AskedFrom(1)

\* No source supplies the asked variable: not forced empty, absent from or
\* not allowed in the environment, absent from the command-line pairs and
\* from the variables file, and no prompt (not interactive) or a prompt
\* that yielded nothing.
Unsupplied(raw) ==
    LET key == secure_name_check(secure_name_check(raw)[1])[1]
    IN  /\ ~config.empty_vars
        /\ ~(config.allow_env /\ key \in DOMAIN environ)
        /\ ~(config.cmd_vars # None /\ key \in DOMAIN config.cmd_vars[1])
        /\ ~(config.ask_file_vars # None /\ key \in DOMAIN config.ask_file_vars[1])
        /\ \/ ~config.interactive
           \/ \E k \in 1..Len(lookups) :
                 /\ lookups[k].source = "prompt"
                 /\ lookups[k].raw = raw
                 /\ lookups[k].got = None

\* C10: when some asked variable is supplied by no source, a run that
\* reaches the resolution pass (its job files were found and parsed) fails
\* with the error that names such a variable; schedule_specs is never
\* entered and no child process is spawned.
C10_UnresolvedAbortsRun ==
    (\E k \in 1..Len(AllAsked) : Unsupplied(AllAsked[k])) =>
        /\ pc \in {"start", "parse", "query", "try_empty", "try_env", "try_cmd",
                   "try_file", "try_ask", "answer", "failed"}
        /\ scheduled = << >> /\ scheduled_names = {} /\ scans = 0 /\ queue = << >>
        /\ spawned = << >>
        /\ (pc = "failed" /\ specs # << >>) =>
              /\ ~result.ok
              /\ result.kind = "Cound not resolve var"
              /\ \E k \in 1..Len(AllAsked) :
                    /\ Unsupplied(AllAsked[k])
                    /\ result.detail = << secure_name_check(AllAsked[k])[1] >>

C10_Witness ==
    /\ pc = "failed"
    /\ config.interactive
    /\ AllAsked = << "TOKEN_SECURE" >>
    /\ Unsupplied("TOKEN_SECURE")
    /\ result = Err("Cound not resolve var", << "TOKEN" >>)
    /\ spawned = << >>

-----------------------------------------------------------------------------
(* Claims about the job runner *)

\* The whole run: neither dry_run nor a single-job selector.
FullRun == ~config.dry_run /\ config.single_job = None

\* The children that have been started and have not ended.
LiveChildren == {k \in 1..Len(spawned) : ~spawned[k].exited}

\* The child k ran to successful completion.
Succeeded(k) == spawned[k].exited /\ spawned[k].status = Some(0)

\* Every asked variable of every discovered job has its value in the cache.
AllResolved ==
    \A k \in 1..Len(AllAsked) : secure_name_check(AllAsked[k])[1] \in DOMAIN new_env

\* C11: in every step after which some child process has been started, no
\* source is consulted, no prompt is shown and the cache is not written,
\* and every asked variable of every discovered job is already resolved.
C11_ResolutionBeforeJobs ==
    [][ spawned' # << >> =>
           /\ lookups' = lookups
           /\ queried' = queried
           /\ new_env' = new_env
           /\ AllResolved ]_vars

C11_Witness ==
    /\ Len(spawned) = 2
    /\ spawned[1].job = "base" /\ spawned[2].job = "mid"
    /\ \E k \in 1..Len(lookups) :
          lookups[k].source = "prompt" /\ lookups[k].got = Some("p")
    /\ AllAsked = << "TOKEN_SECURE" >>

\* C12: in a full run at most one child process exists at any time; the
\* children are started in queue order, a job only after the main runnable
\* of every earlier job of the queue has succeeded, each script of a job
\* at most once; and when a script of a job starts, the main runnable of
\* each of its dependencies has run to successful completion.
C12_SequentialInQueueOrder ==
    FullRun =>
        /\ Cardinality(LiveChildren) <= 1
        /\ \A k \in 1..Len(spawned) :
              /\ spawned[k].job = queue[spawned[k].pos].name
              /\ \A j \in 1..(k - 1) :
                    /\ spawned[j].pos <= spawned[k].pos
                    /\ spawned[j].exited
                    /\ (spawned[j].pos = spawned[k].pos =>
                           spawned[j].script = "deps" /\ spawned[k].script = "run")
              /\ \A p \in 1..(spawned[k].pos - 1) :
                    \E j \in 1..(k - 1) :
                       spawned[j].pos = p /\ spawned[j].script = "run" /\ Succeeded(j)
              /\ \A d \in queue[spawned[k].pos].depends :
                    \E j \in 1..(k - 1) :
                       spawned[j].job = d /\ spawned[j].script = "run" /\ Succeeded(j)

C12_Witness ==
    /\ FullRun
    /\ Len(queue) = 2
    /\ queue[1].name = "mid" /\ queue[2].name = "base"
    /\ queue[2].depends = {"mid"}
    /\ Len(spawned) = 3
    /\ spawned[1].script = "deps" /\ spawned[2].script = "run"
    /\ spawned[3].job = "base"
    /\ LiveChildren = {3}

\* The failures of the stages before the runner.
StageFailures ==
    {"Failed to retrieve job names", "Cannot parse info file", "Cound not resolve var",
     "Unresolvable variable", "Unschedulable jobs"}

\* The failure of the single-job selector.
SelectionFailures == {"Cannot locate job"}

\* The failures of a job's execution.
JobFailures == {"Cannot find home dir", "No runner found", "io error", "Job failed"}

\* C13: a child that ended with a nonzero or missing exit code is the last
\* child ever started and the run has failed; a failed run takes no further
\* step (so starts no script of a later job) and its result is an error;
\* when the failure is one of discovery, parsing, resolution or scheduling,
\* no child was started, no runner located and no temporary directory made.
C13_FirstFailureEndsRun ==
    /\ [](/\ \A k \in 1..Len(spawned) :
               (spawned[k].exited /\ spawned[k].status # Some(0)) =>
                   /\ k = Len(spawned)
                   /\ pc = "failed"
                   /\ result.kind = "Job failed"
          /\ pc = "failed" =>
                /\ ~result.ok
                /\ result.kind \in StageFailures \cup SelectionFailures \cup JobFailures
          /\ (~result.ok /\ result # Running) => pc = "failed"
          /\ result.kind \in StageFailures \cup SelectionFailures =>
                spawned = << >> /\ located = << >> /\ tmp_dirs = << >>
          /\ result.ok => pc = "done")
    /\ [][pc # "failed"]_vars

C13_Witness ==
    /\ pc = "failed"
    /\ Len(queue) = 2
    /\ FullRun
    /\ Len(spawned) = 1
    /\ spawned[1].pos = 1
    /\ spawned[1].status = Some(1)
    /\ result.kind = "Job failed"

\* C14: the main runnable of a job with has_deps_script is located and
\* started only after that job's deps script has been started and has
\* exited with code 0; when the deps script fails (not made executable, no
\* temporary directory, not spawned, or a nonzero or missing exit code) the
\* run has failed without locating or starting the job's main runnable; for
\* a job without has_deps_script no deps script is started.
C14_DepsScriptFirst ==
    LET DepsOk(p) == \E j \in 1..Len(spawned) :
                        spawned[j].pos = p /\ spawned[j].script = "deps" /\ Succeeded(j)
    IN  /\ \A k \in 1..Len(spawned) :
              IF queue[spawned[k].pos].has_deps_script
              THEN spawned[k].script = "run" =>
                      \E j \in 1..(k - 1) :
                         spawned[j].pos = spawned[k].pos /\ spawned[j].script = "deps"
                         /\ Succeeded(j)
              ELSE spawned[k].script = "run"
        /\ \A l \in 1..Len(located) :
              queue[located[l].pos].has_deps_script => DepsOk(located[l].pos)
        /\ (pc \in {"ensure", "mktemp", "spawn", "wait", "failed"} /\ runnable # None
            /\ job_idx > 0) =>
              (runnable[1].script = "deps" =>
                  /\ queue[job_idx].has_deps_script
                  /\ \A l \in 1..Len(located) : located[l].pos # job_idx
                  /\ \A k \in 1..Len(spawned) :
                        spawned[k].pos = job_idx => spawned[k].script = "deps")

C14_Witness ==
    /\ pc = "failed"
    /\ queue # << >>
    /\ job_idx = 1
    /\ queue[1].has_deps_script
    /\ Len(spawned) = 1
    /\ spawned[1].script = "deps"
    /\ spawned[1].exited /\ spawned[1].status = None
    /\ located = << >>

\* C15: when find_runner finds neither run.sh nor any run.* file for the
\* job whose turn has come, the run fails with "No runner found", the error
\* names the job, and no child of a later job is started.
C15_NoRunnerNamesJob ==
    (located # << >> /\ located[Len(located)].runner = None) =>
        /\ pc = "failed"
        /\ result.kind = "No runner found"
        /\ located[Len(located)].job \in Range(result.detail)
        /\ \A k \in 1..Len(spawned) : spawned[k].pos <= located[Len(located)].pos

\* The temporary directories that exist.
LiveTmpDirs == {t \in 1..Len(tmp_dirs) : tmp_dirs[t].exists}

\* C16: while a child runs, the temporary directory made for it exists and
\* is the one its TMP_DIR and TEMP_DIR name; outside run_process (before the
\* directory is made, and once run_process has returned on any path) no
\* temporary directory exists; at most one exists at any time, each
\* invocation has one of its own, and none exists when the run has ended.
C16_TempDirRemoved ==
    /\ \A k \in 1..Len(spawned) :
          /\ spawned[k].tmp \in 1..Len(tmp_dirs)
          /\ spawned[k].env["TMP_DIR"] = tmp_dirs[spawned[k].tmp].path
          /\ spawned[k].env["TEMP_DIR"] = tmp_dirs[spawned[k].tmp].path
          /\ ~spawned[k].exited => spawned[k].tmp \in LiveTmpDirs
          /\ spawned[k].exited => spawned[k].tmp \notin LiveTmpDirs
          /\ \A j \in 1..Len(spawned) : spawned[j].tmp = spawned[k].tmp => j = k
    /\ Cardinality(LiveTmpDirs) <= 1
    /\ pc \notin {"spawn", "wait"} => LiveTmpDirs = {}
    /\ pc \in {"spawn", "wait"} => LiveTmpDirs = {Len(tmp_dirs)}

C16_Witness ==
    /\ pc = "failed"
    /\ result = Err("io error", << "spawn" >>)
    /\ Len(tmp_dirs) = 2
    /\ Len(spawned) = 1
    /\ spawned[1].status = Some(0)
    /\ LiveTmpDirs = {}

\* C17: a call of ensure_executable that returns Ok leaves the mode as it
\* was when some execute bit was set; otherwise every bit that is not an
\* execute bit (0o7666) keeps its value, some execute bit is set afterwards
\* and a second call changes nothing.
C17_OnlyExecuteAdded ==
    [][ (pc = "ensure" /\ pc' = "mktemp") =>
           LET file == runnable[1].path
               mode_before == modes[file][1]
               mode_after == modes'[file][1]
           IN  /\ bit_and(mode_before, 73) # 0 => mode_after = mode_before
               /\ bit_and(mode_after, 4022) = bit_and(mode_before, 4022)
               /\ bit_and(mode_after, 73) # 0
               /\ ensure_executable(modes', file) = modes' ]_vars

\* The text of an exit status in the claim's words: the code, or -1.
ClaimedExitText(status) ==
    IF status = None THEN "-1"
    ELSE IF status = Some(1) THEN "1"
    ELSE IF status = Some(255) THEN "255"
    ELSE "0"

\* C18: once a child has ended, run_process has failed exactly when the
\* exit code is not 0; the error then names the job and the code, or -1
\* when there is no code.  A "Job failed" error has no other origin.
C18_ExitCodeDecides ==
    /\ \A k \in 1..Len(spawned) :
          spawned[k].exited =>
             IF spawned[k].status = Some(0)
             THEN k = Len(spawned) => result.kind # "Job failed"
             ELSE /\ k = Len(spawned)
                  /\ pc = "failed"
                  /\ result = Err("Job failed",
                                  << spawned[k].job, ClaimedExitText(spawned[k].status) >>)
    /\ result.kind = "Job failed" =>
          /\ spawned # << >>
          /\ spawned[Len(spawned)].exited
          /\ spawned[Len(spawned)].status # Some(0)

C18_Witness ==
    /\ pc = "failed"
    /\ Len(spawned) = 2
    /\ spawned[1].status = Some(0)
    /\ spawned[2].exited /\ spawned[2].status = None
    /\ result = Err("Job failed", << spawned[2].job, "-1" >>)

\* C19: with dry_run set no child is ever started, no runner located, no
\* temporary directory made and no permission changed, whatever the other
\* flags; a dry run that passes scheduling ends with the report of the
\* scheduled jobs, in order.
C19_DryRunSpawnsNothing ==
    /\ [](config.dry_run =>
             /\ spawned = << >>
             /\ located = << >>
             /\ tmp_dirs = << >>
             /\ pc \notin {"run", "deps", "find", "ensure", "mktemp", "spawn", "wait"}
             /\ pc = "done" =>
                   /\ result = Ok
                   /\ Len(reported) = Len(queue)
                   /\ \A k \in 1..Len(queue) : reported[k].name = queue[k].name)
    /\ [][config.dry_run => modes' = modes]_vars

C19_Witness ==
    /\ config.dry_run
    /\ config.single_job = Some("mid")
    /\ pc = "done"
    /\ Len(queue) = 2
    /\ queue[1].name = "base" /\ queue[2].name = "mid"
    /\ Len(reported) = 2
    /\ \E p \in DOMAIN modes : modes[p] = Some(384)

\* The three-digit text of a one-based index below ten.
OneBasedIndex(k) == "00" \o SubSeq(Digits, k + 1, k + 1)

\* C20: the dry-run report lists the k-th job of the schedule with the
\* zero-padded index k (001 for the first job).
C20_ReportIndexOneBased ==
    (config.dry_run /\ pc = "done") =>
        /\ Len(reported) = Len(queue)
        /\ \A k \in 1..Len(queue) :
              /\ reported[k].name = queue[k].name
              /\ reported[k].index = OneBasedIndex(k)

-----------------------------------------------------------------------------
(* Claims about keys, environments and selection *)

\* The characters a normalised key may hold.
KeyChars == UpperCase \o Digits \o "_"

IsKeyChar(c) == \E i \in 1..Len(KeyChars) : SubSeq(KeyChars, i, i) = c

\* Normalisation in the claim's words: uppercase, and every character that
\* is then neither a letter nor a digit replaced by an underscore.
RECURSIVE ClaimedKey(_)
ClaimedKey(key) ==
    IF Len(key) = 0 THEN key
    ELSE LET c == upper_char(SubSeq(key, 1, 1))
         IN  (IF IsKeyChar(c) THEN c ELSE "_") \o ClaimedKey(SubSeq(key, 2, Len(key)))

\* The keys job i takes its env from: the asked names without the secure
\* suffix, and the keys of the declared environment.
SourceKeys(i) ==
    {secure_name_check(specs[i].ask_for_vars[k])[1] :
        k \in 1..Len(specs[i].ask_for_vars)}
    \cup DOMAIN specs[i].provided_env

\* C21: after the resolution pass every key of every job's env holds only
\* uppercase letters, digits and underscores, and is the normalisation of a
\* key the job asked for or declared.
C21_KeysNormalized ==
    ResolutionDone =>
        \A i \in 1..Len(respecs) : \A key \in DOMAIN respecs[i].env :
            /\ \A n \in 1..Len(key) : IsKeyChar(SubSeq(key, n, n))
            /\ \E src \in SourceKeys(i) : key = ClaimedKey(src)

\* The keys create_proc_env injects.
InjectedKeys == {"HOME", "USER", "USERNAME", "SCRIPT_DIR"}

\* C22: in the environment create_proc_env returns, HOME holds the home
\* directory, USER and USERNAME the user name and SCRIPT_DIR the root
\* joined with the job name, whatever the job's env holds under these
\* keys; every other key of the job's env is there with the job's value,
\* and there is no further key.
C22_InjectedKeysWin ==
    pc = "deps" =>
        LET job == queue[job_idx]
        IN  /\ proc_env["HOME"] = "/home/u"
            /\ proc_env["USER"] = "u"
            /\ proc_env["USERNAME"] = "u"
            /\ proc_env["SCRIPT_DIR"] = config.root_dir \o "/" \o job.name
            /\ DOMAIN proc_env = DOMAIN job.env \cup InjectedKeys
            /\ \A key \in DOMAIN job.env \ InjectedKeys :
                  proc_env[key] = job.env[key]

C22_Witness ==
    /\ pc = "deps"
    /\ queue[1].name = "mid"
    /\ DOMAIN queue[1].env = {"HOME", "SCRIPT_DIR", "TOKEN", "DB.HOST_A"}
    /\ queue[1].env["HOME"] = "x"
    /\ queue[1].env["SCRIPT_DIR"] = "y"
    /\ proc_env["HOME"] = "/home/u"
    /\ proc_env["SCRIPT_DIR"] = "jobs/mid"
    /\ proc_env["TOKEN"] = queue[1].env["TOKEN"]

\* C23: with a single-job selector and dry_run off, every child started is
\* a script of the job of that name (one job of the queue: its deps script
\* and its main runnable, each at most once), also when the job has
\* dependencies; the run ends after that job; when no job of the queue has
\* the name, the run has failed with "Cannot locate job" and no child.
C23_OnlySelectedJobRuns ==
    (config.single_job # None /\ ~config.dry_run) =>
        LET jobname == config.single_job[1]
        IN  /\ \A k \in 1..Len(spawned) :
                  /\ spawned[k].job = jobname
                  /\ spawned[k].pos = job_idx
                  /\ \A j \in 1..Len(spawned) :
                        spawned[j].script = spawned[k].script => j = k
            /\ \A l \in 1..Len(located) : located[l].job = jobname
            /\ (pc = "done" /\ queue # << >>) =>
                  /\ queue[job_idx].name = jobname
                  /\ \E k \in 1..Len(spawned) :
                        spawned[k].script = "run" /\ Succeeded(k)
            /\ (pc \in {"done", "failed"} /\ result.kind \notin StageFailures
                /\ \A p \in 1..Len(queue) : queue[p].name # jobname) =>
                  /\ result = Err("Cannot locate job", << jobname >>)
                  /\ spawned = << >>

C23_Witness ==
    /\ config.single_job = Some("mid")
    /\ ~config.dry_run
    /\ pc = "done"
    /\ Len(queue) = 2
    /\ queue[1].name = "base" /\ queue[2].name = "mid"
    /\ queue[2].depends = {"base"}
    /\ Len(spawned) = 2
    /\ spawned[1].job = "mid" /\ spawned[1].script = "deps"
    /\ spawned[2].job = "mid" /\ spawned[2].script = "run"

\* What a well-formed entry holds, by the table of the entries.
ExpectedPair(entry) ==
    IF entry = "A1=x" THEN << "A1", "x" >>
    ELSE IF entry = " A1 = y " THEN << "A1", "y" >>
    ELSE << "B_2", "z" >>

\* The map of a list of well-formed entries: for every key the value of the
\* last entry with that key.
ExpectedMap(entries) ==
    LET keys == {ExpectedPair(entries[i])[1] : i \in 1..Len(entries)}
    IN  [key \in keys |->
           LET last == CHOOSE i \in 1..Len(entries) :
                          /\ ExpectedPair(entries[i])[1] = key
                          /\ \A j \in (i + 1)..Len(entries) :
                                ExpectedPair(entries[j])[1] # key
           IN  ExpectedPair(entries[last])[2]]

\* The first entry of the list that does not match the pattern, or None.
FirstBad(entries) ==
    IF \E i \in 1..Len(entries) : entries[i] \in BadEntries
    THEN Some(entries[CHOOSE i \in 1..Len(entries) :
                         /\ entries[i] \in BadEntries
                         /\ \A j \in 1..(i - 1) : entries[j] \notin BadEntries])
    ELSE None

\* The lines of the variables file and the command-line pairs ("no file" and
\* "no pairs" as empty lists).
FileLines ==
    IF opt[1].ask_file = None \/ opt[1].ask_file[1].lines = None THEN << >>
    ELSE opt[1].ask_file[1].lines[1]

CmdPairs == IF opt[1].ask_vars = None THEN << >> ELSE opt[1].ask_vars[1]

FileReadable == opt[1].ask_file = None \/ opt[1].ask_file[1].lines # None

\* C24: once Config::try_from has returned for a readable variables file:
\* a malformed line of the file fails with a parse error naming the line
\* and the file as its source; else a malformed command-line pair fails
\* with a parse error naming the pair and a source other than the file;
\* else the Config holds, for each source, the last value of every key.
C24_ParseErrorNamesSource ==
    (pc # "config" /\ FileReadable) =>
        IF FirstBad(FileLines) # None
        THEN /\ pc = "failed"
             /\ result = Err("Unparseable line", << "askfile", FirstBad(FileLines)[1] >>)
        ELSE IF FirstBad(CmdPairs) # None
             THEN /\ pc = "failed"
                  /\ result.kind = "Unparseable line"
                  /\ result.detail[2] = FirstBad(CmdPairs)[1]
                  /\ result.detail[1] # "askfile"
             ELSE /\ pc = "start"
                  /\ config.ask_file_vars =
                        IF opt[1].ask_file = None THEN None
                        ELSE Some(ExpectedMap(FileLines))
                  /\ config.cmd_vars =
                        IF opt[1].ask_vars = None THEN None
                        ELSE Some(ExpectedMap(CmdPairs))

\* C25: for every list of discovered names, one name several times
\* included: the schedule holds each job name at most once, and no job name
\* has its main runnable started more than once.
C25_EachNameOnce ==
    /\ \A i, j \in 1..Len(queue) : queue[i].name = queue[j].name => i = j
    /\ \A k, l \in 1..Len(spawned) :
          (/\ spawned[k].script = "run"
           /\ spawned[l].script = "run"
           /\ spawned[k].job = spawned[l].job) => k = l

====
